---------------------------- MODULE Spec2Model ----------------------------
(***************************************************************************)
(* Model of src/app.py: the timesheet report pipeline (column resolution,  *)
(* hours coercion, grouping, statistics, project filter, export).          *)
(*                                                                         *)
(* Representation.                                                         *)
(*   - A Python str is the sequence of its Unicode code points, so that    *)
(*     strip / lower / replace and string ordering are computed, e.g.      *)
(*     "hours" is <<104, 111, 117, 114, 115>>.                             *)
(*   - An Optional value is a sequence of length 0 (None) or 1 (Some(x)).  *)
(*   - A table cell is a record [k, s, v]: k = "nan" (empty cell, NaN),    *)
(*     k = "str" (text s) or k = "num" (number v).                         *)
(*   - Hours are fixed-point numbers counted in thousandths of an hour     *)
(*     (5 is 0.005 h, 1000 is 1 h); rounding to two decimals is rounding   *)
(*     to a multiple of 10.                                                *)
(*   - df_raw is held as `headers` (df_raw.columns) and `rows`: for each   *)
(*     raw row the cells found under the columns used as project, person   *)
(*     and hours (the projection of line 186).                             *)
(***************************************************************************)
EXTENDS Integers, Sequences, FiniteSets, TLC

VARIABLES
    headers,          \* df_raw.columns (list of str)
    rows,             \* df_raw rows, projected on the three roles
    manual_cols,      \* sidebar choice per role: None is "(Авто)"
    selects,          \* number of sidebar choices the user changed
    pc,               \* position in the "process_clicked" block
    cols,             \* role -> Optional column, line 358
    validated,        \* Optional [input, coerced, invalid_count] of validate_hours
    result_df,        \* Optional aggregated table returned by process_timesheet
    stats,            \* Optional statistics returned by process_timesheet
    selected_project, \* Optional value of the "Проект" selectbox
    filtered_df,      \* Optional table given to preview and export
    metrics,          \* Optional values shown by st.metric
    excel_bytes,      \* Optional content written by create_excel_report
    error             \* Optional error shown by st.error

vars == << headers, rows, manual_cols, selects, pc, cols, validated, result_df,
           stats, selected_project, filtered_df, metrics, excel_bytes, error >>

----------------------------------------------------------------------------
(* Bounds of the model *)

\* widest table of the header family
MaxCols == 22
\* leading columns whose header is drawn from HeaderPool; also the columns
\* offered for manual choice
MaxNamed == 2
\* sidebar choices the user changes before clicking the button
MaxSelects == 1
\* longest table of the rows family
MaxRows == 2

----------------------------------------------------------------------------
(* Optional values and cells *)

None == << >>
Some(x) == << x >>
Get(o) == o[1]

NaN == [k |-> "nan", s |-> << >>, v |-> 0]
Str(t) == [k |-> "str", s |-> t, v |-> 0]
Num(n) == [k |-> "num", s |-> << >>, v |-> n]

Roles == {"activity", "person", "hours"}

Min(a, b) == IF a <= b THEN a ELSE b

----------------------------------------------------------------------------
(* Strings *)

\* str.strip() whitespace: tab, LF, VT, FF, CR, FS..US, space
IsSpace(c) == c \in {9, 10, 11, 12, 13, 28, 29, 30, 31, 32}

\* str.lower() on one code point: ASCII A-Z, Cyrillic А-Я and Ё
LowerChar(c) ==
    IF c >= 65 /\ c <= 90 THEN c + 32
    ELSE IF c >= 1040 /\ c <= 1071 THEN c + 32
    ELSE IF c = 1025 THEN 1105
    ELSE c

RECURSIVE LStrip(_)
LStrip(s) ==
    IF s = << >> THEN s
    ELSE IF IsSpace(Head(s)) THEN LStrip(Tail(s))
    ELSE s

RECURSIVE RStrip(_)
RStrip(s) ==
    IF s = << >> THEN s
    ELSE IF IsSpace(s[Len(s)]) THEN RStrip(SubSeq(s, 1, Len(s) - 1))
    ELSE s

Strip(s) == RStrip(LStrip(s))

Lower(s) == [i \in 1..Len(s) |-> LowerChar(s[i])]

\* s.replace(chr(old), chr(new))
Replace(s, old, new) == [i \in 1..Len(s) |-> IF s[i] = old THEN new ELSE s[i]]

\* str(s).strip().lower().replace("\n", " ").replace("\r", " ")
normalize(s) == Replace(Replace(Lower(Strip(s)), 10, 32), 13, 32)

\* Python's str ordering: lexicographic on code points
RECURSIVE StrLess(_, _)
StrLess(a, b) ==
    IF b = << >> THEN FALSE
    ELSE IF a = << >> THEN TRUE
    ELSE IF Head(a) < Head(b) THEN TRUE
    ELSE IF Head(a) > Head(b) THEN FALSE
    ELSE StrLess(Tail(a), Tail(b))

----------------------------------------------------------------------------
(* Column resolver *)

ACTIVITY_ALIASES ==
    { <<1080, 1084, 1103, 32, 1072, 1082, 1090, 1080, 1074, 1085, 1086, 1089, 1090, 1080>>,
      <<1087, 1088, 1086, 1077, 1082, 1090>>,                          \* "проект"
      <<97, 99, 116, 105, 118, 105, 116, 121, 32, 110, 97, 109, 101>>, \* "activity name"
      <<97, 99, 116, 105, 118, 105, 116, 121>> }                       \* "activity"

PERSON_ALIASES ==
    { <<1087, 1086, 1083, 1085, 1086, 1077, 32, 1085, 1072, 1079, 1074, 1072, 1085, 1080, 1077>>,
      <<1089, 1086, 1090, 1088, 1091, 1076, 1085, 1080, 1082>>,        \* "сотрудник"
      <<1089, 1087, 1077, 1094, 1080, 1072, 1083, 1080, 1089, 1090>>,  \* "специалист"
      <<102, 117, 108, 108, 32, 110, 97, 109, 101>>,                   \* "full name"
      <<101, 109, 112, 108, 111, 121, 101, 101>> }                     \* "employee"

HOURS_ALIASES ==
    { <<1079, 1072, 1087, 1080, 1089, 1072, 1085, 1085, 1099, 1077, 32, 1095, 1072, 1089, 1099>>,
      <<1095, 1072, 1089, 1099>>,                                      \* "часы"
      <<104, 111, 117, 114, 115>>,                                     \* "hours"
      <<108, 111, 103, 103, 101, 100, 32, 104, 111, 117, 114, 115>>,   \* "logged hours"
      <<116, 105, 109, 101>> }                                         \* "time"

\* The dict {normalize(c): c for c in df.columns}, as the list of its items
\* in iteration order: a key keeps the place of its first insertion and
\* takes the value of its last.
RECURSIVE name_map(_)
name_map(columns) ==
    IF columns = << >> THEN << >>
    ELSE LET init == name_map(SubSeq(columns, 1, Len(columns) - 1))
             c    == columns[Len(columns)]
             key  == normalize(c)
         IN  IF \E i \in 1..Len(init) : init[i][1] = key
             THEN [i \in 1..Len(init) |->
                      IF init[i][1] = key THEN << key, c >> ELSE init[i]]
             ELSE Append(init, << key, c >>)

\* first item of the dict whose key is in aliases, else None
RECURSIVE FirstItemIn(_, _)
FirstItemIn(items, aliases) ==
    IF items = << >> THEN None
    ELSE IF Head(items)[1] \in aliases THEN Some(Head(items)[2])
    ELSE FirstItemIn(Tail(items), aliases)

find_column_by_alias(columns, aliases) == FirstItemIn(name_map(columns), aliases)

\* 0-based positions of the Excel letters V, G, C
pos_map == [activity |-> 21, person |-> 6, hours |-> 2]

fallback_by_excel_letters(columns) ==
    [role \in Roles |->
        IF pos_map[role] < Len(columns) THEN Some(columns[pos_map[role] + 1])
        ELSE None]

\* Python's `a or b` on Optional[str]; a column name is a non-empty str
Or(a, b) == IF a # None THEN a ELSE b

detect_columns(columns) ==
    LET auto == [activity |-> find_column_by_alias(columns, ACTIVITY_ALIASES),
                 person   |-> find_column_by_alias(columns, PERSON_ALIASES),
                 hours    |-> find_column_by_alias(columns, HOURS_ALIASES)]
    IN  IF \E k \in Roles : auto[k] = None
        THEN LET fb == fallback_by_excel_letters(columns)
             IN  [k \in Roles |-> Or(auto[k], fb[k])]
        ELSE auto

----------------------------------------------------------------------------
(* Hours coercer *)

IsDigit(c) == c >= 48 /\ c <= 57

RECURSIVE DecimalValue(_)
DecimalValue(s) ==
    IF s = << >> THEN 0
    ELSE 10 * DecimalValue(SubSeq(s, 1, Len(s) - 1)) + (s[Len(s)] - 48)

\* pd.to_numeric(errors="coerce") on one cell. Text is parsed as a plain
\* decimal integer (the texts of HoursPool carry no sign, point or exponent);
\* anything else becomes NaN. The result is in thousandths of an hour.
to_numeric(cell) ==
    IF cell.k = "num" THEN cell
    ELSE IF cell.k = "str" /\ cell.s # << >> /\ \A i \in 1..Len(cell.s) : IsDigit(cell.s[i])
         THEN Num(1000 * DecimalValue(cell.s))
    ELSE NaN

\* series.isna().sum()
isna_sum(series) == Cardinality({i \in 1..Len(series) : series[i].k = "nan"})

fillna_keep(series, n) == series

\* series.fillna(n)
fillna(series, n) ==
    [i \in 1..Len(series) |-> IF series[i].k = "nan" THEN Num(n) ELSE series[i]]

validate_hours_count_all(series) ==
    LET coerced == [i \in 1..Len(series) |-> to_numeric(series[i])]
    IN  [input         |-> series,
         coerced       |-> fillna(coerced, 0),
         invalid_count |-> isna_sum(coerced)]

validate_hours(series) ==
    LET coerced == [i \in 1..Len(series) |-> to_numeric(series[i])]
    IN  [input         |-> series,
         coerced       |-> fillna(coerced, 0),
         invalid_count |-> isna_sum(coerced) - isna_sum(series)]

----------------------------------------------------------------------------
(* Aggregator and statistics *)

RowPresent(r) == r.project.k # "nan" /\ r.person.k # "nan"

RowAnyPresent(r) == r.project.k # "nan" \/ r.person.k # "nan"

dropna_all(work) == SelectSeq(work, RowAnyPresent)

\* work.dropna(subset=["Проект", "Специалист"], how="any")
dropna(work) == SelectSeq(work, RowPresent)

KeyGeq(a, b) ==
    \/ StrLess(b[1], a[1])
    \/ a[1] = b[1] /\ ~StrLess(a[2], b[2])

\* order of the keys (project, person): by project, then by person
KeyLeq(a, b) ==
    \/ StrLess(a[1], b[1])
    \/ a[1] = b[1] /\ ~StrLess(b[2], a[2])

\* keys of the groups, ascending (groupby sorts its keys; NaN keys are
\* dropped)
RECURSIVE SortedKeys(_)
SortedKeys(S) ==
    IF S = {} THEN << >>
    ELSE LET m == CHOOSE k \in S : \A j \in S : KeyLeq(k, j)
         IN  << m >> \o SortedKeys(S \ {m})

RECURSIVE SumHours(_)
SumHours(table) ==
    IF table = << >> THEN 0
    ELSE Head(table).hours + SumHours(Tail(table))

\* work.groupby(["Проект", "Специалист"], as_index=False)["Часы"].sum()
groupby_sum(work) ==
    LET keyed == {i \in 1..Len(work) : RowPresent(work[i])}
        keys  == {<< work[i].project.s, work[i].person.s >> : i \in keyed}
        order == SortedKeys(keys)
        total(key) ==
            LET RECURSIVE Acc(_)
                Acc(i) == IF i = 0 THEN 0
                          ELSE Acc(i - 1) +
                               (IF i \in keyed /\ work[i].project.s = key[1]
                                               /\ work[i].person.s = key[2]
                                THEN work[i].hours.v ELSE 0)
            IN  Acc(Len(work))
    IN  [g \in 1..Len(order) |->
            [project |-> order[g][1], person |-> order[g][2], hours |-> total(order[g])]]

\* stable insertion of row r into the sorted table
RECURSIVE InsertSorted(_, _)
InsertSorted(table, r) ==
    IF table = << >> THEN << r >>
    ELSE LET last == table[Len(table)]
         IN  IF KeyLeq(<< last.project, last.person >>, << r.project, r.person >>)
             THEN Append(table, r)
             ELSE Append(InsertSorted(SubSeq(table, 1, Len(table) - 1), r), last)

\* grouped.sort_values(["Проект", "Специалист"], kind="mergesort").reset_index(drop=True)
RECURSIVE sort_values(_)
sort_values(table) ==
    IF table = << >> THEN << >>
    ELSE InsertSorted(sort_values(SubSeq(table, 1, Len(table) - 1)), table[Len(table)])

\* round(2), half to even, on thousandths: the nearest multiple of 10
Round2(v) ==
    LET q == v \div 10
        r == v % 10
    IN  IF r < 5 THEN 10 * q
        ELSE IF r > 5 THEN 10 * (q + 1)
        ELSE IF q % 2 = 0 THEN 10 * q
        ELSE 10 * (q + 1)

round2(table) ==
    [i \in 1..Len(table) |-> [table[i] EXCEPT !.hours = Round2(@)]]

nunique(table, field) == Cardinality({table[i][field] : i \in 1..Len(table)})

\* process_timesheet after its column check: lines 186-216
process_timesheet(df_rows) ==
    LET kept    == dropna(df_rows)
        checked == validate_hours([i \in 1..Len(kept) |-> kept[i].hours])
        work    == [i \in 1..Len(kept) |-> [kept[i] EXCEPT !.hours = checked.coerced[i]]]
        grouped == round2(sort_values(groupby_sum(work)))
    IN  [validated |-> checked,
         grouped   |-> grouped,
         stats     |-> [projects     |-> nunique(grouped, "project"),
                        people       |-> nunique(grouped, "person"),
                        hours_total  |-> SumHours(grouped),
                        invalid_rows |-> checked.invalid_count,
                        source_rows  |-> Len(df_rows),
                        used_rows    |-> Len(work)]]

----------------------------------------------------------------------------
(* Inputs *)

\* "Unnamed"-like header of column i, matching no alias: "U07" for i = 7
Filler(i) == << 85, 48 + (i \div 10), 48 + (i % 10) >>

HeaderPool ==
    { <<72, 111, 117, 114, 115>>,                                  \* "Hours"
      <<32, 104, 111, 117, 114, 115>>,                             \* " hours"
      <<76, 111, 103, 103, 101, 100, 10, 72, 111, 117, 114, 115>>, \* "Logged\nHours"
      <<69, 109, 112, 108, 111, 121, 101, 101>>,                   \* "Employee"
      <<1055, 1088, 1086, 1077, 1082, 1090>> }                     \* "Проект"

\* header lists of n columns: the first MaxNamed drawn from HeaderPool or
\* left unnamed, the others unnamed; names are pairwise distinct, as
\* pd.read_excel makes them
HeaderLists(n) ==
    LET k == Min(n, MaxNamed)
    IN  { h \in { [i \in 1..n |-> IF i <= k /\ f[i] # << >> THEN f[i] ELSE Filler(i)] :
                    f \in [1..k -> HeaderPool \cup {<< >>}] } :
            \A i, j \in 1..n : i # j => h[i] # h[j] }

CanonicalHeaders ==
    << <<1055, 1088, 1086, 1077, 1082, 1090>>,      \* "Проект"
       <<69, 109, 112, 108, 111, 121, 101, 101>>,   \* "Employee"
       <<72, 111, 117, 114, 115>> >>                \* "Hours"

ProjectPool == { NaN, Str(<<65>>), Str(<<66>>) }        \* empty, "A", "B"
PersonPool  == { NaN, Str(<<120>>), Str(<<121>>) }      \* empty, "x", "y"
\* empty, 0.005, "7", "1x"
HoursPool   == { NaN, Num(5), Str(<<55>>), Str(<<49, 120>>) }

RowPool == [project : ProjectPool, person : PersonPool, hours : HoursPool]

SampleRow == [project |-> Str(<<65>>), person |-> Str(<<120>>), hours |-> Num(1250)]

\* the sentinel "Все проекты"
ALL_PROJECTS == <<1042, 1089, 1077, 32, 1087, 1088, 1086, 1077, 1082, 1090, 1099>>

----------------------------------------------------------------------------
(* The run: upload, sidebar, button, processing block *)

\* State after the file is read (lines 298-328): each selectbox starts on
\* the detected column, or on "(Авто)" when none was detected.
Loaded(h, r) ==
    /\ headers = h
    /\ rows = r
    /\ manual_cols = detect_columns(h)
    /\ selects = 0
    /\ pc = "idle"
    /\ cols = [k \in Roles |-> None]
    /\ validated = None
    /\ result_df = None
    /\ stats = None
    /\ selected_project = None
    /\ filtered_df = None
    /\ metrics = None
    /\ excel_bytes = None
    /\ error = None

\* numbers of columns: the narrow tables, and those around the fallback
\* positions of pos_map
Widths == (0..3) \cup {6, 7, 21, MaxCols}

\* tables that study the headers
InitHeaders ==
    \E n \in Widths : \E h \in HeaderLists(n) :
        \E r \in {<< >>, << SampleRow >>} :
            /\ n = 0 => r = << >>
            /\ Loaded(h, r)

\* tables that study the rows
InitRows ==
    \E n \in 0..MaxRows : \E r \in [1..n -> RowPool] : Loaded(CanonicalHeaders, r)

Init == InitHeaders

\* options of a column selectbox: "(Авто)" and the columns offered
ColumnOptions == {None} \cup {Some(headers[i]) : i \in 1..Min(Len(headers), MaxNamed)}

\* the user changes one sidebar selectbox (lines 310-328)
SelectColumn(role, option) ==
    /\ pc = "idle"
    /\ selects < MaxSelects
    /\ option # manual_cols[role]
    /\ manual_cols' = [manual_cols EXCEPT ![role] = option]
    /\ selects' = selects + 1
    /\ UNCHANGED << headers, rows, pc, cols, validated, result_df, stats,
                    selected_project, filtered_df, metrics, excel_bytes, error >>

resolve_auto_first(manual, auto) == Or(auto, manual)

\* manual_cols[role] or auto[role]
resolve(manual, auto) == Or(manual, auto)

\* the button is clicked; lines 357-362
ResolveColumns ==
    /\ pc = "idle"
    /\ LET auto == detect_columns(headers)
       IN  cols' = [k \in Roles |-> resolve(manual_cols[k], auto[k])]
    /\ pc' = "checks"
    /\ UNCHANGED << headers, rows, manual_cols, selects, validated, result_df, stats,
                    selected_project, filtered_df, metrics, excel_bytes, error >>

never_empty(h, r) == FALSE

\* df_raw.empty
df_empty(h, r) == Len(h) = 0 \/ Len(r) = 0

\* [k for k, v in cols.items() if v is None]
missing(c) == {k \in Roles : c[k] = None}

\* An error as st.error shows it: its kind and the roles its message names.
\* Neither message of lines 366-372 names a role.
Failure(kind) == Some([kind |-> kind, roles |-> {}])

\* lines 365-372
BasicChecks ==
    /\ pc = "checks"
    /\ IF df_empty(headers, rows)
       THEN pc' = "error" /\ error' = Failure("empty")
       ELSE IF missing(cols) # {}
       THEN pc' = "error" /\ error' = Failure("missing_columns")
       ELSE pc' = "process" /\ error' = error
    /\ UNCHANGED << headers, rows, manual_cols, selects, cols, validated, result_df,
                    stats, selected_project, filtered_df, metrics, excel_bytes >>

\* line 375: process_timesheet(df_raw, cols), with its check of lines 178-184
ProcessTimesheet ==
    /\ pc = "process"
    /\ IF \E r \in Roles :
            cols[r] = None \/ ~(\E i \in 1..Len(headers) : headers[i] = Get(cols[r]))
       THEN /\ pc' = "error"
            /\ error' = Failure("columns_not_found")
            /\ UNCHANGED << validated, result_df, stats >>
       ELSE LET out == process_timesheet(rows)
            IN  /\ validated' = Some(out.validated)
                /\ result_df' = Some(out.grouped)
                /\ stats' = Some(out.stats)
                /\ pc' = "filter"
                /\ error' = error
    /\ UNCHANGED << headers, rows, manual_cols, selects, cols,
                    selected_project, filtered_df, metrics, excel_bytes >>

\* result_df[result_df["Проект"] == selected_project].reset_index(drop=True)
filter_project(table, name) ==
    LET Match(r) == r.project = name
    IN  SelectSeq(table, Match)

\* lines 380-411: the project selectbox, the filter, the metrics
FilterAndShow(choice) ==
    /\ pc = "filter"
    /\ choice \in {ALL_PROJECTS} \cup {Get(result_df)[i].project : i \in 1..Len(Get(result_df))}
    /\ selected_project' = Some(choice)
    /\ filtered_df' = IF choice # ALL_PROJECTS
                      THEN Some(filter_project(Get(result_df), choice))
                      ELSE result_df
    /\ metrics' = Some([projects    |-> Get(stats).projects,
                        people      |-> Get(stats).people,
                        hours_total |-> Get(stats).hours_total])
    /\ pc' = "export"
    /\ UNCHANGED << headers, rows, manual_cols, selects, cols, validated, result_df,
                    stats, excel_bytes, error >>

\* the two sheets written by create_excel_report(df, stats)
create_excel_report(df, st) == [report |-> df, statistics |-> st]

\* lines 416-427
Export ==
    /\ pc = "export"
    /\ excel_bytes' = Some(create_excel_report(Get(filtered_df), Get(stats)))
    /\ pc' = "done"
    /\ UNCHANGED << headers, rows, manual_cols, selects, cols, validated, result_df,
                    stats, selected_project, filtered_df, metrics, error >>

ProjectChoices == {ALL_PROJECTS} \cup {p.s : p \in ProjectPool \ {NaN}} \cup {SampleRow.project.s}

Next ==
    \/ \E role \in Roles : \E option \in ColumnOptions : SelectColumn(role, option)
    \/ ResolveColumns
    \/ BasicChecks
    \/ ProcessTimesheet
    \/ \E choice \in ProjectChoices : FilterAndShow(choice)
    \/ Export

Spec == Init /\ [][Next]_vars

\* the processing block alone, on the tables of the rows family
NextRows ==
    \/ ResolveColumns
    \/ BasicChecks
    \/ ProcessTimesheet
    \/ \E choice \in ProjectChoices : FilterAndShow(choice)
    \/ Export

RowsSpec == InitRows /\ [][NextRows]_vars

----------------------------------------------------------------------------
(* Properties *)

Table == Get(result_df)
Checked == Get(validated)

\* the raw rows in which both project and person are present
Retained == {i \in 1..Len(rows) : rows[i].project.k # "nan" /\ rows[i].person.k # "nan"}

RECURSIVE SumCells(_)
SumCells(series) ==
    IF series = << >> THEN 0 ELSE Head(series).v + SumCells(Tail(series))

\* text that is a number: one or more decimal digits
NumericText(s) == s # << >> /\ \A i \in 1..Len(s) : s[i] \in 48..57

\* strict order of two aggregated rows: by project, then by person
PairBefore(a, b) ==
    \/ StrLess(a.project, b.project)
    \/ a.project = b.project /\ StrLess(a.person, b.person)

\* C1 (as claimed): the hours of the aggregated table returned by
\* process_timesheet sum to the total of the coerced hours of the rows
\* retained after cleaning.
C1_ConservationOfTotal ==
    result_df # None => SumHours(Table) = SumCells(Checked.coerced)

\* C2: the aggregated table has pairwise distinct (project, person) pairs
\* and consecutive rows strictly increase by project, then person.
C2_DistinctSortedPairs ==
    result_df # None =>
        /\ \A i, j \in 1..Len(Table) :
              i # j => << Table[i].project, Table[i].person >> #
                       << Table[j].project, Table[j].person >>
        /\ \A i \in 1..(Len(Table) - 1) : PairBefore(Table[i], Table[i + 1])

\* C2 witness: two groups were produced from rows given in descending order.
C2_Witness ==
    /\ result_df # None
    /\ Len(Table) = 2
    /\ Len(rows) = 2
    /\ rows[1].project = Str(<<66>>)
    /\ rows[2].project = Str(<<65>>)

\* C3: validate_hours turns each non-empty unparseable value into 0 and
\* counts it once, turns each empty value into 0 without counting it, keeps
\* each parseable value as its number; the invalid count is the number of
\* non-empty unparseable values.
C3_ValidateHoursPerValue ==
    validated # None =>
        /\ Len(Checked.coerced) = Len(Checked.input)
        /\ \A i \in 1..Len(Checked.input) :
              LET in  == Checked.input[i]
                  out == Checked.coerced[i]
              IN  /\ in.k = "nan" => out = Num(0)
                  /\ in.k = "num" => out = in
                  /\ (in.k = "str" /\ NumericText(in.s)) =>
                         out = Num(1000 * DecimalValue(in.s))
                  /\ (in.k = "str" /\ ~NumericText(in.s)) => out = Num(0)
        /\ Checked.invalid_count =
              Cardinality({i \in 1..Len(Checked.input) :
                              Checked.input[i].k = "str" /\ ~NumericText(Checked.input[i].s)})

\* C3 witness: one column held an empty value and an unparseable text, and
\* exactly the text was counted.
C3_Witness ==
    /\ validated # None
    /\ \E i, j \in 1..Len(Checked.input) :
          /\ Checked.input[i].k = "nan"
          /\ Checked.input[j] = Str(<<49, 120>>)
    /\ Checked.invalid_count = 1

\* the role's alias set
AliasesOf(role) ==
    IF role = "activity" THEN ACTIVITY_ALIASES
    ELSE IF role = "person" THEN PERSON_ALIASES
    ELSE HOURS_ALIASES

\* columns whose normalized header is in the alias set
Matching(aliases) == {i \in 1..Len(headers) : normalize(headers[i]) \in aliases}

\* C4: the column used for a role is the manual choice when one is given;
\* otherwise a column whose normalized header is in the role's alias set
\* when one exists; otherwise the column at the role's fixed position when
\* the table is wide enough; otherwise the role is unresolved.
C4_ResolutionPrecedence ==
    pc # "idle" =>
        \A role \in Roles :
            IF manual_cols[role] # None THEN cols[role] = manual_cols[role]
            ELSE IF Matching(AliasesOf(role)) # {}
                 THEN \E i \in Matching(AliasesOf(role)) : cols[role] = Some(headers[i])
            ELSE IF Len(headers) > pos_map[role]
                 THEN cols[role] = Some(headers[pos_map[role] + 1])
            ELSE cols[role] = None

\* C4 witness: after the click, activity came from position 21 (no manual
\* choice, no alias), and hours from a manual choice that is not the
\* alias-matching column.
C4_Witness ==
    /\ pc = "checks"
    /\ Len(headers) > pos_map["activity"]
    /\ manual_cols["activity"] = None
    /\ Matching(ACTIVITY_ALIASES) = {}
    /\ cols["activity"] = Some(headers[pos_map["activity"] + 1])
    /\ manual_cols["hours"] # None
    /\ Matching(HOURS_ALIASES) # {}
    /\ cols["hours"] = manual_cols["hours"]

\* C5 (as claimed): whenever a role is still unresolved, the run fails with
\* a missing-columns error that names exactly the unresolved roles.
C5_MissingColumnsNamed ==
    (pc \notin {"idle", "checks"} /\ {k \in Roles : cols[k] = None} # {}) =>
        /\ error # None
        /\ Get(error).kind = "missing_columns"
        /\ Get(error).roles = {k \in Roles : cols[k] = None}

\* C6 (as claimed): with a specific project selected, the serializer gets
\* exactly the aggregated rows of that project, and the statistics written
\* and shown are those of the filtered rows.
C6_FilteredViewStatistics ==
    (pc = "done" /\ Get(selected_project) # ALL_PROJECTS) =>
        LET sel  == Get(selected_project)
            view == Get(excel_bytes).report
            st   == Get(excel_bytes).statistics
        IN  /\ view = SelectSeq(Table, LAMBDA r : r.project = sel)
            /\ st.projects = Cardinality({view[i].project : i \in 1..Len(view)})
            /\ st.people = Cardinality({view[i].person : i \in 1..Len(view)})
            /\ st.hours_total = SumHours(view)
            /\ Get(metrics).projects = st.projects
            /\ Get(metrics).people = st.people
            /\ Get(metrics).hours_total = st.hours_total

\* C7: rows with an empty project or person are dropped before grouping:
\* used_rows counts the raw rows with both present, source_rows counts all
\* raw rows, the aggregated pairs are exactly the pairs of the retained
\* rows (whatever their hours), each with the rounded total of those rows.
C7_EmptyKeysDropped ==
    stats # None =>
        /\ Get(stats).used_rows = Cardinality(Retained)
        /\ Get(stats).source_rows = Len(rows)
        /\ {<< Table[g].project, Table[g].person >> : g \in 1..Len(Table)} =
              {<< rows[i].project.s, rows[i].person.s >> : i \in Retained}
        /\ \A g \in 1..Len(Table) :
              Table[g].hours =
                 Round2(SumCells([i \in 1..Len(rows) |->
                           IF i \in Retained /\ rows[i].project.s = Table[g].project
                                             /\ rows[i].person.s = Table[g].person
                           THEN to_numeric(rows[i].hours) ELSE NaN]))

\* C7 witness: of two raw rows, one without a person was dropped and one
\* with unparseable hours was kept.
C7_Witness ==
    /\ stats # None
    /\ Len(rows) = 2
    /\ rows[1].person.k = "nan"
    /\ rows[1].project.k = "str"
    /\ rows[2].hours = Str(<<49, 120>>)
    /\ Get(stats).used_rows = 1
    /\ Len(Table) = 1

\* C8: once the table is empty or a role is unresolved, the run ends in a
\* single error, nothing further can run, and no aggregated table,
\* statistics, filtered view or report exists.
C8_FatalErrorStopsRun ==
    (pc \notin {"idle", "checks"} /\
        (Len(rows) = 0 \/ Len(headers) = 0 \/ \E k \in Roles : cols[k] = None)) =>
        /\ pc = "error"
        /\ error # None
        /\ validated = None
        /\ result_df = None
        /\ stats = None
        /\ filtered_df = None
        /\ metrics = None
        /\ excel_bytes = None
        /\ ~ENABLED Next

\* C8 witness: a run on a table without rows, all roles resolved, ended in
\* the empty-input error.
C8_Witness ==
    /\ pc = "error"
    /\ Len(rows) = 0
    /\ Len(headers) > 0
    /\ \A k \in Roles : cols[k] # None
    /\ Get(error).kind = "empty"

\* C9 (as claimed): find_column_by_alias returns the first column, in
\* source order, whose normalized name is in the alias set, and none only
\* when no column matches.
C9_FirstMatchingColumn ==
    \A role \in Roles :
        LET m == Matching(AliasesOf(role))
        IN  find_column_by_alias(headers, AliasesOf(role)) =
               IF m = {} THEN None
               ELSE Some(headers[CHOOSE i \in m : \A j \in m : i <= j])

\* entries of the column that validate_hours forced to 0
Forced(series) == {i \in 1..Len(series) : to_numeric(series[i]).k = "nan"}

\* C10 (as claimed): every output of validate_hours is numeric and the
\* number of entries forced to 0 equals the invalid count.
C10_ForcedEqualsInvalid ==
    validated # None =>
        /\ \A i \in 1..Len(Checked.coerced) : Checked.coerced[i].k = "num"
        /\ Cardinality(Forced(Checked.input)) = Checked.invalid_count

\* C10 (amended): every output of validate_hours is numeric and the number
\* of entries forced to 0 that were not empty in the input equals the
\* invalid count; the empty entries are forced to 0 as well and not counted.
C10_ForcedNonEmptyEqualsInvalid ==
    validated # None =>
        /\ \A i \in 1..Len(Checked.coerced) : Checked.coerced[i].k = "num"
        /\ \A i \in Forced(Checked.input) : Checked.coerced[i] = Num(0)
        /\ Cardinality({i \in Forced(Checked.input) : Checked.input[i].k # "nan"}) =
              Checked.invalid_count

\* C10 witness: a column of two forced entries, one empty and one not,
\* gave an invalid count of 1.
C10_Witness ==
    /\ validated # None
    /\ Cardinality(Forced(Checked.input)) = 2
    /\ Cardinality({i \in Forced(Checked.input) : Checked.input[i].k = "nan"}) = 1
    /\ Checked.invalid_count = 1

=============================================================================
